---- MODULE Spec2Model ----
(***************************************************************************)
(* Model of src/src/layout.c: the layout file parser                       *)
(* (bl_parse_layout_file), the encoder (bl_layout_convert) and the         *)
(* end-to-end flow (bl_layout_write).                                      *)
(*                                                                         *)
(* The input file is revealed one character at a time by fgetc.  The      *)
(* files considered are all texts over the characters the parser tells    *)
(* apart (digits, comma, LF, CR, space, tab, one other character), within *)
(* the bounds named below.  The digit characters of a file are fixed by   *)
(* their place (DigitFor), so that different keys carry different numbers *)
(* and multi-digit keys have different digits.                            *)
(***************************************************************************)
EXTENDS Integers, Sequences, FiniteSets, TLC

\* ---------------------------------------------------------------- bounds
\* The device dimensions of blusb.h, scaled down.
NUMROWS == 3
NUMCOLS == 4
NUMLAYERS_MAX == 2
\* Longest file read, in characters beyond what NUMLAYERS_MAX + 1 full lines need.
MaxSlack == 1
\* The one key of a file that may have more than one digit: its key number
\* LongKey, counted from 0.
LongKey == 1
\* Most filler characters of a file: space, tab, CR anywhere, LF not after a digit.
MaxFill == 1
\* Most "unexpected character while skipping whitespace" messages recorded.
MaxWarn == 1

\* ---------------------------------------------------------------- program constants
\* char parse_buffer[20]
BufSize == 20
\* uint16_t holds values modulo 2^16
Uint16Mod == 65536
\* INT_MAX, the largest value atoi can represent
IntMax == 2147483647

LayerCells == NUMROWS * NUMCOLS
\* number of uint16_t cells of bl_layout_t.matrix
Cells == NUMLAYERS_MAX * LayerCells
MaxLen == (NUMLAYERS_MAX + 1) * LayerCells * 2 + MaxSlack

\* An indeterminate value: memory that malloc returned and nothing wrote yet.
Undef == 0 - 1

BL_STATE_DIGIT == "DIGIT"
BL_STATE_WHITESPACE == "WHITESPACE"

DigitSeq == <<"0", "1", "2", "3", "4", "5", "6", "7", "8", "9">>
DigitChars == {DigitSeq[i] : i \in 1..10}
LineBreaks == {"\n", "\r"}
Blanks == {" ", "\t"}
Others == {"x"}
EOFCh == "EOF"

isdigit(c) == c \in DigitChars
DigitVal(c) == CHOOSE d \in 0..9 : DigitSeq[d + 1] = c

VARIABLES
    pc,            \* where bl_layout_write / bl_parse_layout_file stands
    f,             \* the FILE: "null", "open", "closed"
    feof,          \* feof(f)
    ch,            \* char ch
    file,          \* the file's content read so far, as a reference reading of it
    state, layer, row, col, parse_buffer,   \* the parser's locals
    alloc,         \* the bl_layout_t allocation: "none", "live", "freed"
    nlayers,       \* layout->nlayers
    matrix,        \* layout->matrix, flattened
    oob,           \* a store was made outside the bl_layout_t allocation
    lastw,         \* [layer, row, col] of the last store to matrix
    nkeys,         \* keys stored since the last layer boundary
    ret,           \* what bl_parse_layout_file returned: "none", "layout", "NULL"
    msg,           \* the last error message printed
    nwarn,         \* messages printed by the Whitespace state
    data,          \* the buffer bl_layout_convert returned
    sent           \* what bl_usb_write_layout was given

vars == <<pc, f, feof, ch, file, state, layer, row, col, parse_buffer, alloc,
          nlayers, matrix, oob, lastw, nkeys, ret, msg, nwarn, data, sent>>

parserVars == <<state, layer, row, col, parse_buffer>>
layoutVars == <<alloc, nlayers, matrix, oob, lastw, nkeys>>
outVars == <<data, sent>>

Min(a, b) == IF a < b THEN a ELSE b

\* ---------------------------------------------------------------- the file
\* The digit at place j (from 0) of the k-th key (from 0) of a file.
DigitFor(k, j) == DigitSeq[((k + j) % 9) + 2]

\* file.pos    characters read so far (ftell)
\* file.ntok   keys (digit runs) begun so far
\* file.ndig   digits at the end of the text read so far
\* file.tokv   decimal value of that digit run, capped at Uint16Mod
\* file.nfill  filler characters
\* file.lines  the completed lines, each the values of its keys
\* file.cur    the values of the keys of the current line closed so far
\* file.plain  the text so far is only keys, each directly followed by a
\*             comma or by LF
NoFile == [pos |-> 0, ntok |-> 0, ndig |-> 0, tokv |-> 0, nfill |-> 0,
           lines |-> << >>, cur |-> << >>, plain |-> TRUE]

\* The digit that may come next: the file's place fixes which one; a second
\* digit is allowed in the file's key number LongKey.
NextDigits(fl) ==
    IF fl.ndig = 1 /\ fl.ntok - 1 # LongKey THEN {}
    ELSE {DigitFor(IF fl.ndig = 0 THEN fl.ntok ELSE fl.ntok - 1, fl.ndig)}

\* The characters that may come next in the file.
NextChars(fl) ==
    IF fl.pos >= MaxLen THEN {}
    ELSE NextDigits(fl) \cup {","} \cup Others
         \cup {c \in {"\n"} : fl.ndig > 0 \/ fl.nfill < MaxFill}
         \cup {c \in {"\r"} \cup Blanks : fl.nfill < MaxFill}

\* The reference reading of the file, after character c.
Advance(fl, c) ==
    LET closed == IF fl.ndig > 0 THEN Append(fl.cur, fl.tokv) ELSE fl.cur
        filler == c \in Blanks \/ c = "\r" \/ (c = "\n" /\ fl.ndig = 0)
    IN  [pos   |-> fl.pos + 1,
         ntok  |-> IF isdigit(c) /\ fl.ndig = 0 THEN fl.ntok + 1 ELSE fl.ntok,
         ndig  |-> IF isdigit(c) THEN fl.ndig + 1 ELSE 0,
         tokv  |-> IF isdigit(c)
                   THEN Min(Uint16Mod, (IF fl.ndig = 0 THEN 0 ELSE fl.tokv) * 10 + DigitVal(c))
                   ELSE 0,
         nfill |-> IF filler THEN fl.nfill + 1 ELSE fl.nfill,
         lines |-> IF c \in LineBreaks /\ fl.ndig > 0 THEN Append(fl.lines, closed)
                   ELSE fl.lines,
         cur   |-> IF c \in LineBreaks /\ fl.ndig > 0 THEN << >>
                   ELSE IF c = "," THEN closed ELSE fl.cur,
         plain |-> fl.plain /\ (isdigit(c) \/ (c \in {",", "\n"} /\ fl.ndig > 0))]

\* ch = fgetc(f): the next character of the file, or the end of the file.
Fgetc ==
    \/ \E c \in NextChars(file) :
          /\ ch' = c
          /\ file' = Advance(file, c)
          /\ feof' = FALSE
    \/ /\ ch' = EOFCh
       /\ feof' = TRUE
       /\ file' = file

\* ---------------------------------------------------------------- atoi
RECURSIVE DecFold(_, _, _)
\* The decimal value of digits buf[i..], after acc: [v, ovf], ovf when the
\* value does not fit an int.
DecFold(buf, i, acc) ==
    IF i > Len(buf) THEN acc
    ELSE LET d == DigitVal(buf[i])
             over == acc.ovf \/ acc.v > IntMax \div 10
                     \/ (acc.v = IntMax \div 10 /\ d > IntMax % 10)
         IN  DecFold(buf, i + 1, [v |-> IF over THEN 0 ELSE acc.v * 10 + d, ovf |-> over])

RECURSIVE WrapFold(_, _, _)
\* The decimal value of digits buf[i..] modulo 2^16.
WrapFold(buf, i, acc) ==
    IF i > Len(buf) THEN acc
    ELSE WrapFold(buf, i + 1, (acc * 10 + DigitVal(buf[i])) % Uint16Mod)

\* (uint16_t) atoi(buf): the values the conversion can yield.  atoi of a
\* number that does not fit an int is undefined: the builds at hand wrap
\* (strtol's long cut to int) or saturate (LONG_MAX cut to int is -1).
AtoiKey(buf) ==
    LET r == DecFold(buf, 1, [v |-> 0, ovf |-> FALSE])
    IN  IF r.ovf THEN {WrapFold(buf, 1, 0), Uint16Mod - 1}
        ELSE {r.v % Uint16Mod}

\* ---------------------------------------------------------------- the layout
\* CellIndex with the row stride taken from the wrong dimension.
CellIndex_RowStride(l, r, c) == l * NUMROWS * NUMCOLS + r * NUMROWS + c

\* &layout->matrix[l][r][c] - &layout->matrix[0][0][0]
CellIndex(l, r, c) == l * NUMROWS * NUMCOLS + r * NUMCOLS + c

\* layout->matrix[layer][row][col] = key.  A row index past NUMROWS - 1
\* addresses the cells of the next layer; an address past the allocation is
\* recorded in oob.
Store(key) ==
    LET i == CellIndex(layer, row, col)
    IN  /\ matrix' = IF i < Cells THEN [matrix EXCEPT ![i] = key] ELSE matrix
        /\ oob' = (oob \/ i >= Cells)
        /\ lastw' = [layer |-> layer, row |-> row, col |-> col]

\* An error message: its kind, what it counts ("keys" of a row, "rows" of a
\* layer), the actual and expected counts, the line and key it names and
\* ftell(f).
NoMsg == [kind |-> "none", count |-> "", actual |-> 0, expected |-> 0, line |-> 0,
          key |-> 0, pos |-> 0]

Error(kind, count, actual, expected, line, key) ==
    [kind |-> kind, count |-> count, actual |-> actual, expected |-> expected,
     line |-> line, key |-> key, pos |-> file.pos]

\* ShortRowError reporting the column index in place of the key count.
ShortRowError_Index(l, c) == Error("MalformedLayer", "keys", c, NUMCOLS, l + 1, c + 1)

\* line 121: "Invalid number of keys in row, actually %d, expected %d at line %d, key %d"
ShortRowError(l, c) == Error("MalformedLayer", "keys", c + 1, NUMCOLS, l + 1, c + 1)

\* line 126: "Invalid number of rows in layer, actually %d, expected %d at line %d, key %d"
ShortLayerError(l, r, c) == Error("MalformedLayer", "rows", r + 1, NUMROWS, l + 1, c + 1)

NotSent == [called |-> FALSE, nlayers |-> 0]

Init ==
    /\ pc = "start"
    /\ f = "null"
    /\ feof = FALSE
    /\ ch = EOFCh
    /\ file = NoFile
    /\ state = BL_STATE_WHITESPACE
    /\ layer = 0
    /\ row = 0
    /\ col = 0
    /\ parse_buffer = << >>
    /\ alloc = "none"
    /\ nlayers = 0
    /\ matrix = [i \in 0..(Cells - 1) |-> Undef]
    /\ oob = FALSE
    /\ lastw = [layer |-> 0, row |-> 0, col |-> 0]
    /\ nkeys = 0
    /\ ret = "none"
    /\ msg = NoMsg
    /\ nwarn = 0
    /\ data = << >>
    /\ sent = NotSent

\* ---------------------------------------------------------------- bl_parse_layout_file
\* return NULL / return layout
Return(r) ==
    /\ pc' = "returned"
    /\ ret' = r

\* lines 65-69: fopen fails.
OpenFail ==
    /\ pc = "start"
    /\ msg' = Error("SourceUnavailable", "", 0, 0, 0, 0)
    /\ Return("NULL")
    /\ UNCHANGED <<f, feof, ch, file, parserVars, layoutVars, nwarn, outVars>>

\* lines 65, 83-92: fopen succeeds, bl_create_layout(NUMLAYERS_MAX), the
\* locals are set and the first character is read.
Open ==
    /\ pc = "start"
    /\ f' = "open"
    /\ alloc' = "live"
    /\ nlayers' = NUMLAYERS_MAX
    /\ layer' = 0 /\ col' = 0 /\ row' = 0
    /\ state' = BL_STATE_WHITESPACE
    /\ parse_buffer' = << >>
    /\ Fgetc
    /\ pc' = "loop"
    /\ UNCHANGED <<matrix, oob, lastw, nkeys, ret, msg, nwarn, outVars>>

InLoop == pc = "loop" /\ ~feof

\* BufferFull that leaves no room for the terminating 0.
BufferFull_NoTerminator(buf) == Len(buf) >= BufSize

\* line 96: strlen(parse_buffer) >= sizeof(parse_buffer) - 1
BufferFull(buf) == Len(buf) >= BufSize - 1

\* lines 95-99: a digit, and the buffer is full.
DigitOverflow ==
    /\ InLoop /\ state = BL_STATE_DIGIT /\ isdigit(ch)
    /\ BufferFull(parse_buffer)
    /\ msg' = Error("BufferOverflow", "", 0, 0, layer + 1, col + 1)
    /\ alloc' = "freed"
    /\ Return("NULL")
    /\ UNCHANGED <<f, feof, ch, file, parserVars, nlayers, matrix, oob, lastw, nkeys,
                   nwarn, outVars>>

\* lines 95, 100-104, 138: a digit is appended to the buffer.
DigitAppend ==
    /\ InLoop /\ state = BL_STATE_DIGIT /\ isdigit(ch)
    /\ ~BufferFull(parse_buffer)
    /\ parse_buffer' = Append(parse_buffer, ch)
    /\ Fgetc
    /\ UNCHANGED <<pc, f, state, layer, row, col, layoutVars, ret, msg, nwarn, outVars>>

\* lines 105-115, 138: a comma closes the key.
Comma ==
    /\ InLoop /\ state = BL_STATE_DIGIT /\ ch = ","
    /\ \E key \in AtoiKey(parse_buffer) : Store(key)
    /\ nkeys' = nkeys + 1
    /\ parse_buffer' = << >>
    /\ IF col = NUMCOLS - 1
       THEN col' = 0 /\ row' = row + 1
       ELSE col' = col + 1 /\ row' = row
    /\ state' = BL_STATE_WHITESPACE
    /\ Fgetc
    /\ UNCHANGED <<pc, f, layer, alloc, nlayers, ret, msg, nwarn, outVars>>

\* lines 116-124: a line break closes the key, too few keys in the row.
LineBreakCols ==
    /\ InLoop /\ state = BL_STATE_DIGIT /\ ch \in LineBreaks
    /\ \E key \in AtoiKey(parse_buffer) : Store(key)
    /\ nkeys' = nkeys + 1
    /\ parse_buffer' = << >>
    /\ state' = BL_STATE_WHITESPACE
    /\ col < NUMCOLS - 1
    /\ msg' = ShortRowError(layer, col)
    /\ alloc' = "freed"
    /\ Return("NULL")
    /\ UNCHANGED <<f, feof, ch, file, layer, row, col, nlayers, nwarn, outVars>>

\* lines 116-120, 125-129: a line break closes the key, too few rows in the layer.
LineBreakRows ==
    /\ InLoop /\ state = BL_STATE_DIGIT /\ ch \in LineBreaks
    /\ \E key \in AtoiKey(parse_buffer) : Store(key)
    /\ nkeys' = nkeys + 1
    /\ parse_buffer' = << >>
    /\ state' = BL_STATE_WHITESPACE
    /\ ~(col < NUMCOLS - 1)
    /\ row < NUMROWS - 1
    /\ msg' = ShortLayerError(layer, row, col)
    /\ alloc' = "freed"
    /\ Return("NULL")
    /\ UNCHANGED <<f, feof, ch, file, layer, row, col, nlayers, nwarn, outVars>>

\* lines 116-120, 125, 130-132, 138: a line break closes the key and the layer.
LineBreak ==
    /\ InLoop /\ state = BL_STATE_DIGIT /\ ch \in LineBreaks
    /\ \E key \in AtoiKey(parse_buffer) : Store(key)
    /\ parse_buffer' = << >>
    /\ state' = BL_STATE_WHITESPACE
    /\ ~(col < NUMCOLS - 1)
    /\ ~(row < NUMROWS - 1)
    /\ layer' = layer + 1
    /\ col' = 0
    /\ row' = 0
    /\ nkeys' = 0
    /\ Fgetc
    /\ UNCHANGED <<pc, f, alloc, nlayers, ret, msg, nwarn, outVars>>

\* DigitUnexpected that prints its message and reads on.
DigitUnexpected_ReadsOn ==
    /\ pc = "loop" /\ ~feof /\ state = BL_STATE_DIGIT
    /\ ~isdigit(ch) /\ ch # "," /\ ch \notin LineBreaks
    /\ msg' = Error("UnexpectedCharacter", "", 0, 0, layer + 1, col + 1)
    /\ Fgetc
    /\ UNCHANGED <<pc, f, parserVars, layoutVars, ret, nwarn, outVars>>

\* lines 133-137: any other character while reading digits.
DigitUnexpected ==
    /\ InLoop /\ state = BL_STATE_DIGIT
    /\ ~isdigit(ch) /\ ch # "," /\ ch \notin LineBreaks
    /\ msg' = Error("UnexpectedCharacter", "", 0, 0, layer + 1, col + 1)
    /\ alloc' = "freed"
    /\ Return("NULL")
    /\ UNCHANGED <<f, feof, ch, file, parserVars, nlayers, matrix, oob, lastw, nkeys,
                   nwarn, outVars>>

\* lines 139-142: whitespace is skipped.
SkipWhitespace ==
    /\ InLoop /\ state = BL_STATE_WHITESPACE
    /\ ch \in LineBreaks \cup Blanks
    /\ Fgetc
    /\ UNCHANGED <<pc, f, parserVars, layoutVars, ret, msg, nwarn, outVars>>

\* StartDigits that reads past the digit that starts the key.
StartDigits_Consumes ==
    /\ pc = "loop" /\ ~feof /\ state = BL_STATE_WHITESPACE
    /\ isdigit(ch)
    /\ state' = BL_STATE_DIGIT
    /\ Fgetc
    /\ UNCHANGED <<pc, f, layer, row, col, parse_buffer, layoutVars,
                   ret, msg, nwarn, outVars>>

\* lines 143-145: a digit starts a key; the character is not consumed.
StartDigits ==
    /\ InLoop /\ state = BL_STATE_WHITESPACE
    /\ isdigit(ch)
    /\ state' = BL_STATE_DIGIT
    /\ UNCHANGED <<pc, f, feof, ch, file, layer, row, col, parse_buffer, layoutVars,
                   ret, msg, nwarn, outVars>>

\* lines 146-148: any other character while skipping whitespace: a message
\* is printed, nothing else changes (no character is read).
WhitespaceUnexpected ==
    /\ InLoop /\ state = BL_STATE_WHITESPACE
    /\ ch \notin LineBreaks \cup Blanks /\ ~isdigit(ch)
    /\ nwarn' = Min(nwarn + 1, MaxWarn)
    /\ UNCHANGED <<pc, f, feof, ch, file, parserVars, layoutVars, ret, msg, outVars>>

\* line 159: the end-of-source test.
Incomplete(r, c) ==
    (r > 0 /\ r < NUMROWS - 1) \/ (c > 0 /\ c < NUMCOLS - 1)

\* FinalKey that leaves nlayers as bl_create_layout set it.
FinalKey_KeepsCount ==
    /\ IF Len(parse_buffer) > 0
       THEN /\ \E key \in AtoiKey(parse_buffer) : Store(key)
            /\ nkeys' = nkeys + 1
       ELSE UNCHANGED <<matrix, oob, lastw, nkeys>>
    /\ nlayers' = nlayers

\* lines 151-157: the last key, if the buffer holds one, and nlayers.
FinalKey ==
    /\ IF Len(parse_buffer) > 0
       THEN /\ \E key \in AtoiKey(parse_buffer) : Store(key)
            /\ nkeys' = nkeys + 1
       ELSE UNCHANGED <<matrix, oob, lastw, nkeys>>
    /\ nlayers' = layer

\* lines 93, 151-164: end of the file, the layout is incomplete.
EndIncomplete ==
    /\ pc = "loop" /\ feof
    /\ FinalKey
    /\ Incomplete(row, col)
    /\ msg' = Error("IncompleteLayout", "keys", 1 + col + row * col, NUMROWS * NUMCOLS,
                    layer + 1, 0)
    /\ alloc' = "freed"
    /\ f' = "closed"
    /\ Return("NULL")
    /\ UNCHANGED <<feof, ch, file, parserVars, nwarn, outVars>>

\* lines 93, 151-159, 165-168: end of the file, the layout is returned.
EndOfSource ==
    /\ pc = "loop" /\ feof
    /\ FinalKey
    /\ ~Incomplete(row, col)
    /\ f' = "closed"
    /\ Return("layout")
    /\ UNCHANGED <<feof, ch, file, parserVars, alloc, msg, nwarn, outVars>>

\* ---------------------------------------------------------------- bl_layout_convert
\* layout->matrix[l][r][c] as read: indeterminate past the allocation.
MatrixAt(m, l, r, c) ==
    IF CellIndex(l, r, c) < Cells THEN m[CellIndex(l, r, c)] ELSE Undef

\* lines 34-36: the unit of data a cell is written to.
ConvertIndex(l, r, c) == l * NUMROWS * NUMCOLS + r * NUMCOLS + c

\* ConvertSize without the unit of the layer count.
ConvertSize_NoHeader(nl) == nl * NUMCOLS * NUMROWS

\* line 28: the number of uint16_t units allocated for nl layers.
ConvertSize(nl) == 1 + nl * NUMCOLS * NUMROWS

\* lines 30-40: the units of data that bl_layout_convert stores to.
ConvertWrites(nl) ==
    {0} \cup {ConvertIndex(l, r, c) :
                 l \in 0..(nl - 1), r \in 0..(NUMROWS - 1), c \in 0..(NUMCOLS - 1)}

RECURSIVE ConvertLoop(_, _, _, _)
\* lines 31-40: the loop from its k-th iteration on (layer, row, col in this
\* order, col innermost); d is data so far.  A unit outside data is not kept.
ConvertLoop(m, nl, k, d) ==
    IF k >= nl * NUMROWS * NUMCOLS THEN d
    ELSE LET l == k \div (NUMROWS * NUMCOLS)
             r == (k % (NUMROWS * NUMCOLS)) \div NUMCOLS
             c == k % NUMCOLS
             n == ConvertIndex(l, r, c)
         IN  ConvertLoop(m, nl, k + 1,
                         IF n \in DOMAIN d THEN [d EXCEPT ![n] = MatrixAt(m, l, r, c)] ELSE d)

\* lines 28-42: bl_layout_convert.
Converted(m, nl) ==
    LET fresh == [n \in 0..(ConvertSize(nl) - 1) |-> Undef]
    IN  ConvertLoop(m, nl, 0, [fresh EXCEPT ![0] = nl])

\* ---------------------------------------------------------------- bl_layout_write
\* lines 200-201: the layout parsed is converted.
Convert ==
    /\ pc = "returned" /\ ret = "layout"
    /\ data' = Converted(matrix, nlayers)
    /\ pc' = "converted"
    /\ UNCHANGED <<f, feof, ch, file, parserVars, layoutVars, ret, msg, nwarn, sent>>

\* lines 200-201: the parse returned NULL and bl_layout_convert reads
\* layout->nlayers through it.
ConvertNull ==
    /\ pc = "returned" /\ ret = "NULL"
    /\ pc' = "fault"
    /\ UNCHANGED <<f, feof, ch, file, parserVars, layoutVars, ret, msg, nwarn, outVars>>

\* lines 203-205: the buffer is handed to the transport.
UsbWrite ==
    /\ pc = "converted"
    /\ sent' = [called |-> TRUE, nlayers |-> nlayers]
    /\ pc' = "done"
    /\ UNCHANGED <<f, feof, ch, file, parserVars, layoutVars, ret, msg, nwarn, data>>

Next ==
    \/ OpenFail
    \/ Open
    \/ DigitOverflow
    \/ DigitAppend
    \/ Comma
    \/ LineBreakCols
    \/ LineBreakRows
    \/ LineBreak
    \/ DigitUnexpected
    \/ SkipWhitespace
    \/ StartDigits
    \/ WhitespaceUnexpected
    \/ EndIncomplete
    \/ EndOfSource
    \/ Convert
    \/ ConvertNull
    \/ UsbWrite

Spec == Init /\ [][Next]_vars

\* ================================================================ properties
Returned == ret # "none"

\* The parse failed on a file it had opened, before the end of the file.
FailedEarly == f # "null" /\ ret = "NULL" /\ ~feof

\* A line of exactly n keys, each below 2^16.
LineOk(line, n) == Len(line) = n /\ \A i \in 1..Len(line) : line[i] < Uint16Mod

\* The keys of the current line, the one being read included.
CurKeys(fl) == Len(fl.cur) + (IF fl.ndig > 0 THEN 1 ELSE 0)

\* The text read so far begins a file of at most NUMLAYERS_MAX * perLayer
\* lines of perLine keys, each line closed by LF.
FormatPrefix(fl, perLine, perLayer) ==
    /\ fl.plain
    /\ \A i \in 1..Len(fl.lines) : LineOk(fl.lines[i], perLine)
    /\ \A i \in 1..Len(fl.cur) : fl.cur[i] < Uint16Mod
    /\ fl.tokv < Uint16Mod
    /\ CurKeys(fl) <= perLine
    /\ Len(fl.lines) <= NUMLAYERS_MAX * perLayer
    /\ Len(fl.lines) = NUMLAYERS_MAX * perLayer => CurKeys(fl) = 0

\* The text read is exactly L * perLayer lines of perLine keys, each closed by LF.
FormatFull(fl, L, perLine, perLayer) ==
    /\ fl.plain
    /\ fl.ndig = 0 /\ fl.cur = << >>
    /\ Len(fl.lines) = L * perLayer
    /\ \A i \in 1..Len(fl.lines) : LineOk(fl.lines[i], perLine)

\* C1 as the spec states it: a file of L layers, each NUMROWS lines of
\* NUMCOLS keys, is parsed without failure into nlayers = L and the cells
\* of its keys.
C1_RowPerLine ==
    /\ FailedEarly => ~FormatPrefix(file, NUMCOLS, NUMROWS)
    /\ \A L \in 1..NUMLAYERS_MAX :
          (Returned /\ feof /\ FormatFull(file, L, NUMCOLS, NUMROWS)) =>
             /\ ret = "layout"
             /\ nlayers = L
             /\ \A l \in 0..(L - 1), r \in 0..(NUMROWS - 1), c \in 0..(NUMCOLS - 1) :
                   matrix[l * LayerCells + r * NUMCOLS + c] = file.lines[l * NUMROWS + r + 1][c + 1]

\* C1, amended: a file of L lines (1 <= L <= NUMLAYERS_MAX), each line
\* NUMROWS * NUMCOLS comma-separated keys below 2^16 closed by a line break,
\* is parsed without failure, the layout returned has nlayers = L and
\* matrix[l][r][c] is key r * NUMCOLS + c of line l.
C1_LayerPerLine ==
    /\ FailedEarly => ~FormatPrefix(file, LayerCells, 1)
    /\ \A L \in 1..NUMLAYERS_MAX :
          (Returned /\ feof /\ FormatFull(file, L, LayerCells, 1)) =>
             /\ ret = "layout"
             /\ nlayers = L
             /\ \A l \in 0..(L - 1), r \in 0..(NUMROWS - 1), c \in 0..(NUMCOLS - 1) :
                   matrix[l * LayerCells + r * NUMCOLS + c] = file.lines[l + 1][r * NUMCOLS + c + 1]

\* A file of NUMLAYERS_MAX full lines, one key of several digits, was parsed.
C1_Witness ==
    /\ ret = "layout" /\ feof
    /\ FormatFull(file, NUMLAYERS_MAX, LayerCells, 1)
    /\ file.lines[1][LongKey + 1] > 9

\* bl_layout_convert has returned its buffer.
HasData == pc \in {"converted", "done"}

\* C2: the buffer holds nlayers in unit 0 and matrix[l][r][c] in unit
\* 1 + l * NUMROWS * NUMCOLS + r * NUMCOLS + c, for every layer below nlayers.
C2_HeaderThenCells ==
    HasData =>
       /\ data[0] = nlayers
       /\ \A l \in 0..(nlayers - 1), r \in 0..(NUMROWS - 1), c \in 0..(NUMCOLS - 1) :
             data[1 + l * NUMROWS * NUMCOLS + r * NUMCOLS + c] = MatrixAt(matrix, l, r, c)

\* The reader of the buffer: unit 0 is the layer count, the units after it
\* the grid, layer by layer, row by row.
DecodeLayers(d) == d[0]
DecodeCell(d, l, r, c) == d[1 + (l * NUMROWS + r) * NUMCOLS + c]

\* C3: decoding the buffer gives back nlayers and every cell of the layers
\* below nlayers.
C3_RoundTrip ==
    HasData =>
       LET n == DecodeLayers(data)
       IN  /\ n = nlayers
           /\ \A l \in 0..(n - 1), r \in 0..(NUMROWS - 1), c \in 0..(NUMCOLS - 1) :
                 DecodeCell(data, l, r, c) = MatrixAt(matrix, l, r, c)

\* C4: every unit of the buffer returned is fixed by the file: none holds
\* what malloc left in the layout or in the buffer.
C4_NoIndeterminateUnit ==
    HasData => \A n \in DOMAIN data : data[n] # Undef

\* C5: every iteration of the parse loop reads a further character,
\* returns, or passes from Whitespace to DigitAccumulate (whose every branch
\* reads or returns).
C5_IterationAdvances ==
    [][(pc = "loop" /\ ~feof) =>
          \/ file'.pos > file.pos
          \/ feof'
          \/ ret' # "none"
          \/ (state = BL_STATE_WHITESPACE /\ state' = BL_STATE_DIGIT)]_vars

\* C6: when bl_parse_layout_file returns after opening the file, the file
\* is closed.
C6_ClosedOnReturn ==
    (Returned /\ f # "null") => f = "closed"

\* The final key of a file that ends inside a key is stored in the cell of
\* its place in the line, with its value.
FinalKeyStored ==
    LET k == CurKeys(file) - 1
        l == Len(file.lines)
        r == k \div NUMCOLS
        c == k % NUMCOLS
    IN  /\ lastw = [layer |-> l, row |-> r, col |-> c]
        /\ (l * LayerCells + r * NUMCOLS + c < Cells /\ file.tokv < Uint16Mod) =>
              matrix[l * LayerCells + r * NUMCOLS + c] = file.tokv

\* C7: when the file ends inside a key, that key is stored as the last cell
\* and nlayers counts every layer whose NUMROWS * NUMCOLS cells were filled,
\* the one the final key completes included.
C7_FinalKeyCounts ==
    (Returned /\ feof /\ file.ndig > 0) =>
       /\ FinalKeyStored
       /\ ret = "layout" =>
             nlayers = Len(file.lines) + (IF CurKeys(file) = LayerCells THEN 1 ELSE 0)

\* C8: when the file ends with the current layer partly filled (at least
\* one key, fewer than NUMROWS * NUMCOLS), the parse fails with
\* IncompleteLayout.
C8_PartialLayerFails ==
    (Returned /\ feof /\ CurKeys(file) \in 1..(LayerCells - 1)) =>
       (ret = "NULL" /\ msg.kind = "IncompleteLayout")

\* A line break is met in DigitAccumulate.
AtLineBreak == pc = "loop" /\ ~feof /\ state = BL_STATE_DIGIT /\ ch \in LineBreaks

\* The keys of the line that the line break just read closes.
ClosedLine == file.lines[Len(file.lines)]

\* C9: a line break in DigitAccumulate advances to the next layer when the
\* line holds exactly NUMROWS * NUMCOLS keys, and is rejected with
\* MalformedLayer when it holds fewer or more.
C9_ExactLayer ==
    [][AtLineBreak =>
          IF Len(ClosedLine) = LayerCells
          THEN layer' = layer + 1 /\ ret' = "none"
          ELSE ret' = "NULL" /\ msg'.kind = "MalformedLayer"]_vars

\* The entries of the row that the line break closes, the last key included.
RowEntries == ((Len(ClosedLine) - 1) % NUMCOLS) + 1

\* C10: a line break in DigitAccumulate that closes a row of fewer than
\* NUMCOLS entries fails the parse with MalformedLayer; the message gives
\* the entries of that row as the actual count and NUMCOLS as the expected.
C10_ShortRow ==
    [][(AtLineBreak /\ RowEntries < NUMCOLS) =>
          /\ ret' = "NULL"
          /\ msg'.kind = "MalformedLayer" /\ msg'.count = "keys"
          /\ msg'.actual = RowEntries
          /\ msg'.expected = NUMCOLS]_vars

\* A short row was rejected in a row after the first, with two entries.
C10_Witness ==
    /\ ret = "NULL" /\ msg.kind = "MalformedLayer" /\ msg.count = "keys"
    /\ msg.actual = 2
    /\ lastw.row > 0

\* The kinds of message of a fatal error.
FatalKinds == {"SourceUnavailable", "BufferOverflow", "MalformedLayer",
               "UnexpectedCharacter", "IncompleteLayout"}

\* C11: a fatal error ends the parse: once its message is printed the
\* function has returned NULL, and from then on no character is read and
\* no cell is written.
C11_FirstErrorStops ==
    [][/\ msg'.kind \in FatalKinds => ret' = "NULL"
       /\ msg.kind \in FatalKinds =>
             /\ ret' = "NULL" /\ msg' = msg
             /\ file' = file /\ ch' = ch /\ feof' = feof
             /\ matrix' = matrix /\ oob' = oob /\ lastw' = lastw /\ nlayers' = nlayers]_vars

\* The parse failed on a short layer and the caller went on.
C11_Witness ==
    /\ pc = "fault" /\ ret = "NULL"
    /\ msg.kind = "MalformedLayer" /\ msg.count = "rows"

\* A step of the loop on a digit stores no cell.
DigitStoresNothing ==
    (InLoop /\ isdigit(ch)) =>
       (matrix' = matrix /\ oob' = oob /\ lastw' = lastw /\ nkeys' = nkeys)

\* The digit at hand, the n-th of its key or a later one, fails the parse
\* with BufferOverflow.
OverflowsFrom(n) ==
    (InLoop /\ isdigit(ch) /\ file.ndig >= n) =>
       (ret' = "NULL" /\ msg'.kind = "BufferOverflow")

\* C12 as the spec states it: a key of more than 18 digits fails the parse
\* with BufferOverflow, and from its first digit to the abort no cell is
\* written.
C12_MoreThan18 ==
    [][DigitStoresNothing /\ OverflowsFrom(BufSize - 1)]_vars

\* C12, amended: a key of more than 19 digits (sizeof(parse_buffer) - 1)
\* fails the parse with BufferOverflow at its 20th digit, and from its first
\* digit to the abort no cell is written.
C12_MoreThan19 ==
    [][DigitStoresNothing /\ OverflowsFrom(BufSize)]_vars

\* The 20th digit of a key was met and the parse failed.
C12_Witness ==
    /\ ret = "NULL" /\ msg.kind = "BufferOverflow"
    /\ file.ndig = BufSize /\ Len(parse_buffer) = BufSize - 1

\* C13: a character that is no digit, comma or line break, met in
\* DigitAccumulate, fails the parse with UnexpectedCharacter; the message
\* names the layer (completed layers + 1) and the key of that layer
\* (row * NUMCOLS + col + 1), in every row.
C13_KeyInLayer ==
    (ret = "NULL" /\ msg.kind = "UnexpectedCharacter") =>
          /\ msg.line = Len(file.lines) + 1
          /\ msg.key = row * NUMCOLS + col + 1

\* C14: the buffer bl_layout_convert returns for nlayers = L is
\* 2 + 2 * L * NUMROWS * NUMCOLS bytes long (two bytes to the unit), and
\* every unit it stores to has an index in 0 .. L * NUMROWS * NUMCOLS.
C14_SizeAndWrites ==
    HasData =>
       /\ DOMAIN data = 0..(nlayers * NUMROWS * NUMCOLS)
       /\ 2 * Cardinality(DOMAIN data) = 2 + 2 * nlayers * NUMROWS * NUMCOLS
       /\ ConvertWrites(nlayers) \subseteq 0..(nlayers * NUMROWS * NUMCOLS)
       /\ ConvertWrites(nlayers) \subseteq DOMAIN data

\* A layout of NUMLAYERS_MAX layers was converted.
C14_Witness ==
    HasData /\ nlayers = NUMLAYERS_MAX /\ Cardinality(ConvertWrites(nlayers)) > 1

\* C15: a file that ends before any character is parsed with success into
\* nlayers = 0, and its buffer is one unit, 0 (two bytes).
C15_EmptyInput ==
    /\ (Returned /\ f # "null" /\ file.pos = 0) => (ret = "layout" /\ nlayers = 0)
    /\ (HasData /\ file.pos = 0) =>
          /\ DOMAIN data = {0}
          /\ 2 * Cardinality(DOMAIN data) = 2
          /\ data[0] = 0

\* The empty file was parsed, converted and sent.
C15_Witness ==
    pc = "done" /\ file.pos = 0 /\ sent.called

\* C16: every store of the parser to matrix[layer][row][col] has layer
\* below NUMLAYERS_MAX, row below NUMROWS and col below NUMCOLS, whatever the
\* file, and a layout returned has nlayers <= NUMLAYERS_MAX.
C16_StoresInBounds ==
    /\ lastw.layer < NUMLAYERS_MAX /\ lastw.row < NUMROWS /\ lastw.col < NUMCOLS
    /\ ~oob
    /\ ret = "layout" => nlayers <= NUMLAYERS_MAX

\* C17: bl_layout_convert and bl_usb_write_layout are called only for a
\* layout that a successful parse returned: after a failed parse neither is
\* called and nothing is read through the missing layout.
C17_OnlyOnSuccess ==
    /\ ret = "NULL" => (pc = "returned" /\ data = << >> /\ ~sent.called)
    /\ pc \in {"fault", "converted", "done"} => ret = "layout"

\* The parse has failed on a space or tab, the only filler of the text, and
\* the text before it begins a file of at most NUMLAYERS_MAX lines of
\* NUMROWS * NUMCOLS keys below 2^16: the space or tab stands between a
\* number and what follows it.
BlankAfterNumber ==
    /\ ret = "NULL" /\ ch \in Blanks
    /\ file.nfill = 1
    /\ file.ntok - 1 # LongKey
    /\ \A i \in 1..Len(file.lines) : LineOk(file.lines[i], LayerCells)
    /\ \A i \in 1..Len(file.cur) : file.cur[i] < Uint16Mod
    /\ Len(file.cur) + 1 <= LayerCells
    /\ Len(file.lines) < NUMLAYERS_MAX

\* C18: spaces and tabs between two tokens change nothing: a text that
\* begins a well-formed file is not failed for a space or tab put between
\* a number and the comma or line break after it.
C18_BlanksInsignificant ==
    ~BlankAfterNumber

\* C19: every key of a layout returned is stored with the decimal value of
\* its token, which fits 16 bits: no cell of a layer holds another value
\* than the key of its place in the layer's line.
C19_StoredAsWritten ==
    (ret = "layout" /\ ~oob) =>
       \A l \in 0..(Min(nlayers, Len(file.lines)) - 1), k \in 0..(LayerCells - 1) :
          (l < NUMLAYERS_MAX /\ Len(file.lines[l + 1]) = LayerCells) =>
             /\ matrix[l * LayerCells + k] < Uint16Mod
             /\ matrix[l * LayerCells + k] = file.lines[l + 1][k + 1]

\* The keys of the line at hand that the text before ch closes, ch itself
\* not processed yet: at a line break the line it closes, less its last key.
ClosedKeys ==
    IF AtLineBreak THEN SubSeq(ClosedLine, 1, Len(ClosedLine) - 1)
    ELSE IF state = BL_STATE_DIGIT /\ ch = "," THEN SubSeq(file.cur, 1, Len(file.cur) - 1)
    ELSE file.cur

\* The lines of the text before ch.
ClosedLayers == Len(file.lines) - (IF AtLineBreak THEN 1 ELSE 0)

\* C20: cells are filled in row-major order: after k keys of a layer are
\* closed (k < NUMROWS * NUMCOLS) the next key goes to row k div NUMCOLS,
\* column k mod NUMCOLS, and the k-th went to the cell before it with its
\* value; the buffer is empty in the Whitespace state; the digit that
\* starts a key is the first digit of the buffer, neither skipped nor
\* taken twice.
C20_RowMajor ==
    /\ state = BL_STATE_WHITESPACE => parse_buffer = << >>
    /\ pc = "loop" =>
          LET k == Len(ClosedKeys)
          IN  /\ nkeys = k
              /\ layer = ClosedLayers
              /\ k < LayerCells => (row = k \div NUMCOLS /\ col = k % NUMCOLS)
              /\ k \in 1..LayerCells =>
                    /\ lastw = [layer |-> layer, row |-> (k - 1) \div NUMCOLS,
                                col |-> (k - 1) % NUMCOLS]
                    /\ (layer < NUMLAYERS_MAX /\ ClosedKeys[k] < Uint16Mod) =>
                          matrix[layer * LayerCells + (k - 1)] = ClosedKeys[k]
    /\ (InLoop /\ isdigit(ch)) =>
          IF state = BL_STATE_WHITESPACE THEN file.ndig = 1
          ELSE Len(parse_buffer) = file.ndig - 1
    /\ (pc = "loop" /\ state = BL_STATE_DIGIT /\ ~isdigit(ch)) => Len(parse_buffer) >= 1

\* The key of several digits went to row 0, column 1, and the keys after it
\* up to row 1, column 1 are stored; the parser is back in Whitespace.
C20_Witness ==
    /\ pc = "loop" /\ state = BL_STATE_WHITESPACE
    /\ nkeys = NUMCOLS + 2
    /\ lastw.row = 1 /\ lastw.col = 1
    /\ file.cur[LongKey + 1] > 9

====
